---- MODULE Spec2Model ----
(***************************************************************************)
(* A model of the EIA Form 923 / Form 860 normalisation code:             *)
(*   - pudl/eia923.py: get_eia923_page (the page reader),                  *)
(*     get_eia923_plant_info (the list of plants),                         *)
(*     yearly_to_monthly_eia923 (monthly expansion) and                    *)
(*     cleanstringsEIA923 (categorical normalisation);                     *)
(*   - pudl/transform/eia860.py: transform and the entity transformers.    *)
(* Each program has its own specification (SpecPage, SpecPlantInfo,        *)
(* SpecMonthly, SpecClean, SpecTransform, and SpecEntities for the entity  *)
(* transformers called directly); the variables of the programs a          *)
(* specification does not run stay at their idle values.                   *)
(***************************************************************************)
EXTENDS Integers, Sequences, FiniteSets, TLC

VARIABLES
    \* get_eia923_page
    page, years, yi, ppc, perr, df, readLog, ret,
    \* yearly_to_monthly_eia923
    mdf, yearly, monthly, mi, mpc, mres,
    \* cleanstringsEIA923 (applied twice in a row)
    cinput, stringmap, unmapped, field, ki, cpc, cpass, out1,
    \* eia860.transform
    raw, tables, acc, tpos, tpc, terr, tret, o_df, reads,
    \* the entity transformers called one by one, in any order
    ran,
    \* get_eia923_plant_info
    iyears, book, pf, gf, others, df_all_years, ipc, iret

pageVars == <<page, years, yi, ppc, perr, df, readLog, ret>>
monthVars == <<mdf, yearly, monthly, mi, mpc, mres>>
cleanVars == <<cinput, stringmap, unmapped, field, ki, cpc, cpass, out1>>
transVars == <<raw, tables, acc, tpos, tpc, terr, tret, o_df, reads, ran>>
infoVars == <<iyears, book, pf, gf, others, df_all_years, ipc, iret>>
vars == <<pageVars, monthVars, cleanVars, transVars, infoVars>>

(***************************************************************************)
(* Bounds of the model.                                                    *)
(***************************************************************************)
MaxYears == 2      \* longest list of requested years
MaxRows == 2       \* most rows of one sheet

(***************************************************************************)
(* Generic helpers.                                                        *)
(***************************************************************************)
Range(s) == {s[i] : i \in 1..Len(s)}

SeqsUpTo(S, n) == UNION {[1..k -> S] : k \in 0..n}

RECURSIVE SeqMin(_)
SeqMin(s) == IF Len(s) = 1 THEN s[1]
             ELSE LET m == SeqMin(Tail(s)) IN IF s[1] < m THEN s[1] ELSE m

(***************************************************************************)
(* Tables (pandas DataFrames): a set of column names and a sequence of     *)
(* rows; a row carries its index label, the position in the years list of  *)
(* the workbook it was read from, and one cell per column.                 *)
(***************************************************************************)
NaN == -1

EmptyTable == [cols |-> {}, rows |-> <<>>]

\* DataFrame.rename(columns=...) / assignment to .columns: the function f
\* maps the old names to the new ones
RenameCols(t, f) ==
    LET newcols == {f[c] : c \in t.cols}
    IN [cols |-> newcols,
        rows |-> [i \in 1..Len(t.rows) |->
                    [t.rows[i] EXCEPT !.cells =
                        [d \in newcols |->
                            t.rows[i].cells[CHOOSE c \in t.cols : f[c] = d]]]]]

\* DataFrame.drop(cols, axis=1)
DropCols(t, drop) ==
    [cols |-> t.cols \ drop,
     rows |-> [i \in 1..Len(t.rows) |->
                 [t.rows[i] EXCEPT !.cells = [c \in t.cols \ drop |-> t.rows[i].cells[c]]]]]

\* df[col] = scalar
SetCol(t, col, v) ==
    [cols |-> t.cols \cup {col},
     rows |-> [i \in 1..Len(t.rows) |->
                 [t.rows[i] EXCEPT !.cells =
                     [c \in t.cols \cup {col} |->
                        IF c = col THEN v ELSE t.rows[i].cells[c]]]]]

\* reindexing a row on a wider column set: cells of absent columns are NaN
Reindex(r, cols) ==
    [r EXCEPT !.cells = [c \in cols |-> IF c \in DOMAIN r.cells THEN r.cells[c] ELSE NaN]]

\* a variant of DfAppend that puts the new rows first
DfAppendFront(old, new) ==
    LET cols == old.cols \cup new.cols
    IN [cols |-> cols,
        rows |-> [i \in 1..Len(new.rows) |-> Reindex(new.rows[i], cols)]
                 \o [i \in 1..Len(old.rows) |-> Reindex(old.rows[i], cols)]]

\* a variant of DfAppend that keeps only the columns both frames have
DfAppendInner(old, new) ==
    LET cols == IF old.cols = {} THEN new.cols ELSE old.cols \cap new.cols
    IN [cols |-> cols,
        rows |-> [i \in 1..Len(old.rows) |-> DropCols([cols |-> old.cols, rows |-> <<old.rows[i]>>], old.cols \ cols).rows[1]]
                 \o [i \in 1..Len(new.rows) |-> DropCols([cols |-> new.cols, rows |-> <<new.rows[i]>>], new.cols \ cols).rows[1]]]

\* DataFrame.append(other): the rows of other after those of the frame, on
\* the union of the columns, index labels kept
DfAppend(old, new) ==
    LET cols == old.cols \cup new.cols
    IN [cols |-> cols,
        rows |-> [i \in 1..Len(old.rows) |-> Reindex(old.rows[i], cols)]
                 \o [i \in 1..Len(new.rows) |-> Reindex(new.rows[i], cols)]]

(***************************************************************************)
(* The column mapping registry (pudl.constants) as get_eia923_page and     *)
(* get_eia923_column_map use it.                                           *)
(***************************************************************************)
\* the pages of page_to_df
KnownPages == {"generation_fuel", "stocks", "boiler_fuel", "generator",
               "fuel_receipts_costs", "plant_frame"}

\* the columns of constants.tab_map_eia923
TabMapColumns == KnownPages \cup {"year_index"}

\* the years constants.tab_map_eia923 has a row for
MappedYears == 2009..2016

\* the column_map of a year: that year's cleaned header -> canonical name
ColumnMap(pg, yr) ==
    IF yr <= 2011 THEN [c \in {"eia_plant_id"} |-> "plant_id"]
    ELSE [c \in {"plant_id"} |-> "plant_id"]

\* the headers a sheet may carry
Layouts == { {"Plant Id", "YEAR", "Net Generation (MWh)", "Reserved.1"},
             {"EIA Plant Id", "YEAR"},
             {"Unnamed: 0", "Coal"} }

PlantHeaders == {"Plant Id", "EIA Plant Id"}

\* a sheet: its headers and, row by row, the plant id it reports
Sheets == {s \in [cols : Layouts, pids : SeqsUpTo({7, 99999}, MaxRows)] :
              s.cols \cap PlantHeaders = {} => \A i \in 1..Len(s.pids) : s.pids[i] = 7}

\* pd.read_excel: the sheet as a frame with index labels 0..n-1
ReadExcel(sheet, yr, pos) ==
    [cols |-> sheet.cols,
     rows |-> [i \in 1..Len(sheet.pids) |->
                 [idx |-> i - 1, pos |-> pos,
                  cells |-> [c \in sheet.cols |->
                               IF c \in PlantHeaders THEN sheet.pids[i]
                               ELSE IF c = "YEAR" THEN yr ELSE 1]]]]

\* columns.str.replace('[^0-9a-zA-Z]+', ' ').str.strip().str.lower()
\* .str.replace(' ', '_') on the headers the sheets carry
CleanName(c) ==
    CASE c = "Plant Id" -> "plant_id"
      [] c = "EIA Plant Id" -> "eia_plant_id"
      [] c = "YEAR" -> "year"
      [] c = "Net Generation (MWh)" -> "net_generation_mwh"
      [] c = "Reserved.1" -> "reserved_1"
      [] c = "Unnamed: 0" -> "unnamed_0"
      [] c = "Coal" -> "coal"

\* c[:8] == 'reserved'
IsReserved(c) == c \in {"reserved", "reserved_1"}

ApplyMap(m, c) == IF c \in DOMAIN m THEN m[c] ELSE c

StocksName(c) == IF c = "unnamed_0" THEN "census_division_and_state" ELSE c

PlantSentinel == 99999

\* a variant of KeepRow that drops nothing
KeepRowAll(pg, r) == TRUE

\* newdata.loc[newdata['plant_id'] != 99999], skipped on the stocks page
KeepRow(pg, r) == pg = "stocks" \/ r.cells["plant_id"] # PlantSentinel

RECURSIVE FilterRows(_, _)
FilterRows(pg, rows) ==
    IF rows = <<>> THEN <<>>
    ELSE (IF KeepRow(pg, Head(rows)) THEN <<Head(rows)>> ELSE <<>>)
         \o FilterRows(pg, Tail(rows))

\* the body of the loop up to the rename (lines 146-167)
Renamed(pg, yr, pos, sheet) ==
    LET t0 == ReadExcel(sheet, yr, pos)
        t1 == RenameCols(t0, [c \in t0.cols |-> CleanName(c)])
        t2 == DropCols(t1, {c \in t1.cols : IsReserved(c)})
        t3 == IF pg = "stocks" THEN SetCol(t2, "year", yr) ELSE t2
        cm == ColumnMap(pg, yr)
        t4 == RenameCols(t3, [c \in t3.cols |-> ApplyMap(cm, c)])
    IN IF pg = "stocks" THEN RenameCols(t4, [c \in t4.cols |-> StocksName(c)]) ELSE t4

\* newdata['plant_id'] raises KeyError when the column is absent
PlantIdMissing(pg, t) == pg # "stocks" /\ "plant_id" \notin t.cols

FirstYear == 2009

\* a variant of YearsOk that lets every year through
YearsOkNoFloor(ys) == ys # <<>>

\* assert min(years) >= 2009 (min of an empty list raises)
YearsOk(ys) == ys # <<>> /\ SeqMin(ys) >= FirstYear

\* assert page in constants.tab_map_eia923.columns and page != 'year_index'
PageOk(pg) == pg \in TabMapColumns /\ pg # "year_index"


(***************************************************************************)
(* Idle values of the programs.                                            *)
(***************************************************************************)
PageIdle ==
    /\ page = "none" /\ years = <<>> /\ yi = 0 /\ ppc = "idle" /\ perr = "none"
    /\ df = EmptyTable /\ readLog = <<>> /\ ret = <<>>

MonthIdle ==
    /\ mdf = EmptyTable /\ yearly = EmptyTable /\ monthly = EmptyTable
    /\ mi = 0 /\ mpc = "idle" /\ mres = <<>>

CleanIdle ==
    /\ cinput = <<>> /\ stringmap = <<>> /\ unmapped = <<>> /\ field = <<>>
    /\ ki = 0 /\ cpc = "idle" /\ cpass = 0 /\ out1 = <<>>

TransIdle ==
    /\ raw = <<>> /\ tables = {} /\ acc = <<>> /\ tpos = 0 /\ tpc = "idle"
    /\ terr = "none" /\ tret = <<>> /\ o_df = <<>> /\ reads = {}
    /\ ran = <<>>

InfoIdle ==
    /\ iyears = <<>> /\ book = <<>> /\ pf = <<>> /\ gf = <<>> /\ others = <<>>
    /\ df_all_years = <<>> /\ ipc = "idle" /\ iret = <<>>

(***************************************************************************)
(* get_eia923_page(page, eia923_xlsx, years)                               *)
(***************************************************************************)
PageChoices == {"generation_fuel", "stocks", "year_index", "bogus"}

YearChoices == {2008, 2011, 2012, 2017}

PageInit ==
    /\ page \in PageChoices
    /\ years \in SeqsUpTo(YearChoices, MaxYears)
    /\ yi = 0 /\ ppc = "start" /\ perr = "none"
    /\ df = EmptyTable /\ readLog = <<>> /\ ret = <<>>
    /\ MonthIdle /\ CleanIdle /\ TransIdle /\ InfoIdle

\* the two asserts, then df = pd.DataFrame()
CheckArgs ==
    /\ ppc = "start"
    /\ IF YearsOk(years) /\ PageOk(page)
       THEN /\ ppc' = "loop" /\ yi' = 1 /\ perr' = perr
       ELSE /\ ppc' = "failed" /\ yi' = yi
            /\ perr' = IF years = <<>> THEN "ValueError" ELSE "AssertionError"
    /\ df' = EmptyTable
    /\ UNCHANGED <<page, years, readLog, ret, monthVars, cleanVars, transVars, infoVars>>

\* get_eia923_column_map: tab_map_eia923.get_value(year, page) has no row
LookupFails ==
    /\ ppc = "loop" /\ yi <= Len(years)
    /\ years[yi] \notin MappedYears
    /\ ppc' = "failed" /\ perr' = "KeyError: year"
    /\ UNCHANGED <<page, years, yi, df, readLog, ret, monthVars, cleanVars, transVars, infoVars>>

\* one pass of the loop for a year the registry maps: read the sheet of
\* eia923_xlsx[yr] (the same workbook gives the same sheet), clean, rename,
\* filter and append
ReadYear ==
    /\ ppc = "loop" /\ yi <= Len(years)
    /\ years[yi] \in MappedYears
    /\ \E sheet \in Sheets :
        /\ \A k \in 1..Len(readLog) : readLog[k].yr = years[yi] => readLog[k].sheet = sheet
        /\ readLog' = Append(readLog, [yr |-> years[yi], pos |-> yi, sheet |-> sheet])
        /\ LET t == Renamed(page, years[yi], yi, sheet)
           IN IF PlantIdMissing(page, t)
              THEN /\ ppc' = "failed" /\ perr' = "KeyError: plant_id"
                   /\ UNCHANGED <<df, yi>>
              ELSE /\ df' = DfAppend(df, [t EXCEPT !.rows = FilterRows(page, t.rows)])
                   /\ yi' = yi + 1
                   /\ UNCHANGED <<ppc, perr>>
    /\ UNCHANGED <<page, years, ret, monthVars, cleanVars, transVars, infoVars>>

\* return(df)
ReturnPage ==
    /\ ppc = "loop" /\ yi > Len(years)
    /\ ppc' = "done" /\ ret' = <<df>>
    /\ UNCHANGED <<page, years, yi, perr, df, readLog, monthVars, cleanVars, transVars, infoVars>>

PageNext == CheckArgs \/ LookupFails \/ ReadYear \/ ReturnPage

SpecPage == PageInit /\ [][PageNext]_vars


(***************************************************************************)
(* Properties of get_eia923_page.                                          *)
(***************************************************************************)
\* the canonical columns of the k-th sheet read
RCols(k) == Renamed(page, readLog[k].yr, readLog[k].pos, readLog[k].sheet).cols

\* the plant id the i-th row of the k-th sheet read reports
RawPlantId(k, i) ==
    IF "plant_id" \in RCols(k) THEN readLog[k].sheet.pids[i] ELSE NaN

\* the output rows that are row i of the k-th sheet read
OutputOf(k, i) ==
    {p \in 1..Len(df.rows) :
        df.rows[p].pos = readLog[k].pos /\ df.rows[p].idx = i - 1}

InputRowIds == {<<k, i>> \in (1..Len(readLog)) \X (1..(MaxRows + 1)) :
                   i <= Len(readLog[k].sheet.pids)}

\* the page is unknown, or a requested year has no mapping entry
ConfigError ==
    \/ ~PageOk(page)
    \/ \E i \in 1..Len(years) : years[i] \notin MappedYears

\* C2: off the stocks page the output has no row of plant 99999 and keeps
\* every other input row; on the stocks page every input row is kept
C2_SentinelFilter ==
    ppc = "done" =>
        /\ page # "stocks" =>
            /\ \A p \in 1..Len(df.rows) : df.rows[p].cells["plant_id"] # PlantSentinel
            /\ \A id \in InputRowIds :
                 RawPlantId(id[1], id[2]) # PlantSentinel => OutputOf(id[1], id[2]) # {}
        /\ page = "stocks" =>
            /\ \A id \in InputRowIds : OutputOf(id[1], id[2]) # {}
            /\ \A id \in InputRowIds :
                 RawPlantId(id[1], id[2]) = PlantSentinel =>
                    \E p \in OutputOf(id[1], id[2]) :
                        df.rows[p].cells["plant_id"] = PlantSentinel

C2_Witness ==
    /\ ppc = "done" /\ page = "generation_fuel"
    /\ \E id \in InputRowIds : RawPlantId(id[1], id[2]) = PlantSentinel
    /\ \E id \in InputRowIds : RawPlantId(id[1], id[2]) = 7
    /\ Len(df.rows) > 0

\* C3 as stated: on a configuration error the call fails, returns nothing
\* and has read no sheet of any requested year
C3_FailFast ==
    ConfigError => ppc # "done" /\ ret = <<>> /\ readLog = <<>>

\* C3 amended: on a configuration error the call never returns a table; an
\* unknown page or a year before 2009 fails before any sheet is read, but a
\* later year without a mapping entry fails only when the loop reaches it,
\* after the sheets of all the years that precede it have been read
C3_FailAtLookup ==
    ConfigError =>
        /\ ppc # "done" /\ ret = <<>>
        /\ (~PageOk(page) \/ \E i \in 1..Len(years) : years[i] < FirstYear)
              => readLog = <<>> /\ perr # "KeyError: year"
        /\ \A k \in 1..Len(readLog) :
              \A j \in 1..readLog[k].pos : years[j] \in MappedYears
        /\ (ppc = "failed" /\ perr = "KeyError: year") => Len(readLog) = yi - 1

C3_Witness ==
    /\ ppc = "failed" /\ perr = "KeyError: year"
    /\ readLog # <<>> /\ df.rows # <<>>

\* C4: the output lists the rows year by year in the order of the years
\* list, in sheet order within a year, each surviving input row once
C4_YearOrder ==
    ppc = "done" =>
        /\ \A p, q \in 1..Len(df.rows) :
              p < q => \/ df.rows[p].pos < df.rows[q].pos
                       \/ /\ df.rows[p].pos = df.rows[q].pos
                          /\ df.rows[p].idx < df.rows[q].idx
        /\ \A id \in InputRowIds :
              Cardinality(OutputOf(id[1], id[2])) =
                 IF page = "stocks" \/ RawPlantId(id[1], id[2]) # PlantSentinel
                 THEN 1 ELSE 0
        /\ \A p \in 1..Len(df.rows) :
              \E id \in InputRowIds : p \in OutputOf(id[1], id[2])

C4_Witness ==
    /\ ppc = "done" /\ Len(readLog) = 2
    /\ \E p, q \in 1..Len(df.rows) : df.rows[p].pos = 1 /\ df.rows[q].pos = 2
    /\ years[1] > years[2]

\* two of the sheets read differ in their canonical columns
ColumnsDiffer ==
    \E k1, k2 \in 1..Len(readLog) : RCols(k1) \ RCols(k2) # {}

MaxInfoYears == 2  \* the years from 2011 on the workbooks cover

\* the first year with a 'Plant Frame' tab
FrameStart == 2011

InfoYears == (FrameStart - 1)..(FrameStart + MaxInfoYears - 1)

\* get_eia923_page(page, eia923_xlsx, years=ys): the rows of the years in
\* list order, each with its year
RECURSIVE PageRows(_, _, _)
PageRows(bk, pg, ys) ==
    IF ys = <<>> THEN <<>>
    ELSE LET yr == ys[Len(ys)]
             rows == bk[pg][yr]
         IN PageRows(bk, pg, SubSeq(ys, 1, Len(ys) - 1))
            \o [i \in 1..Len(rows) |->
                   [c \in DOMAIN rows[i] \cup {"year"} |->
                       IF c = "year" THEN yr ELSE rows[i][c]]]

\* the place of a row in a table sorted by year, descending: after the rows
\* of its year and of later years
RECURSIVE InsertByYear(_, _)
InsertByYear(sorted, r) ==
    IF sorted = <<>> THEN <<r>>
    ELSE IF Head(sorted).year >= r.year
         THEN <<Head(sorted)>> \o InsertByYear(Tail(sorted), r)
         ELSE <<r>> \o sorted

\* sort_values(['year'], ascending=False)
RECURSIVE SortYearDescending(_)
SortYearDescending(t) ==
    IF t = <<>> THEN <<>>
    ELSE InsertByYear(SortYearDescending(SubSeq(t, 1, Len(t) - 1)), t[Len(t)])

RECURSIVE InsertByPlant(_, _)
InsertByPlant(sorted, r) ==
    IF sorted = <<>> THEN <<r>>
    ELSE IF Head(sorted).plant_id >= r.plant_id
         THEN <<Head(sorted)>> \o InsertByPlant(Tail(sorted), r)
         ELSE <<r>> \o sorted

\* sort_values(['plant_id'], ascending=False)
RECURSIVE SortPlantDescending(_)
SortPlantDescending(t) ==
    IF t = <<>> THEN <<>>
    ELSE InsertByPlant(SortPlantDescending(SubSeq(t, 1, Len(t) - 1)), t[Len(t)])

\* drop_duplicates(subset='plant_id'): the first row of each plant stays
RECURSIVE DropDuplicatePlants(_)
DropDuplicatePlants(t) ==
    IF t = <<>> THEN <<>>
    ELSE LET front == SubSeq(t, 1, Len(t) - 1)
             rest == DropDuplicatePlants(front)
         IN IF \E i \in 1..Len(front) : front[i].plant_id = t[Len(t)].plant_id
            THEN rest ELSE Append(rest, t[Len(t)])

PlantIdsOf(t) == [i \in 1..Len(t) |-> t[i].plant_id]

\* Series.unique(): the values in the order they first appear
RECURSIVE Unique(_)
Unique(ids) ==
    IF ids = <<>> THEN <<>>
    ELSE LET front == SubSeq(ids, 1, Len(ids) - 1)
         IN IF ids[Len(ids)] \in Range(front) THEN Unique(front)
            ELSE Append(Unique(front), ids[Len(ids)])

\* df_all_years.merge(pf, on='plant_id', how='left'): for each id in turn
\* the plant frame rows of that plant in their order, or one row of NaN
RECURSIVE MergePlantFrame(_, _)
MergePlantFrame(ids, frame) ==
    IF ids = <<>> THEN <<>>
    ELSE LET id == ids[Len(ids)]
             match == SelectSeq(frame, LAMBDA r : r.plant_id = id)
         IN MergePlantFrame(SubSeq(ids, 1, Len(ids) - 1), frame)
            \o (IF match = <<>>
                THEN <<[plant_id |-> id, plant_state |-> NaN, eia_sector |-> NaN,
                        naics_code |-> NaN, year |-> NaN]>>
                ELSE match)

\* merge(gf[['plant_id', 'census_region', 'nerc_region']], how='left'); gf
\* holds one row for a plant at most
MergeRegion(t, fuel) ==
    [i \in 1..Len(t) |->
        LET match == SelectSeq(fuel, LAMBDA r : r.plant_id = t[i].plant_id)
        IN [c \in DOMAIN t[i] \cup {"nerc_region"} |->
               IF c = "nerc_region"
               THEN (IF match = <<>> THEN NaN ELSE match[1].nerc_region)
               ELSE t[i][c]]]

\* the order of two values of a sort key, na_position='last'
ValueBefore(x, y) == x # NaN /\ (y = NaN \/ x < y)

\* the order of sort_values(['nerc_region', 'plant_state', 'eia_sector'])
RowBefore(a, b) ==
    \/ ValueBefore(a.nerc_region, b.nerc_region)
    \/ /\ a.nerc_region = b.nerc_region
       /\ \/ ValueBefore(a.plant_state, b.plant_state)
          \/ /\ a.plant_state = b.plant_state
             /\ ValueBefore(a.eia_sector, b.eia_sector)

\* the place of a row in a table sorted on the three keys: before the first
\* row it sorts before, so that rows equal on the keys keep their order
RECURSIVE InsertByKeys(_, _)
InsertByKeys(sorted, r) ==
    IF sorted = <<>> THEN <<r>>
    ELSE LET last == sorted[Len(sorted)]
         IN IF RowBefore(r, last)
            THEN Append(InsertByKeys(SubSeq(sorted, 1, Len(sorted) - 1), r), last)
            ELSE Append(sorted, r)

RECURSIVE SortByKeys(_)
SortByKeys(t) ==
    IF t = <<>> THEN <<>>
    ELSE InsertByKeys(SortByKeys(SubSeq(t, 1, Len(t) - 1)), t[Len(t)])

\* drop(['year'], axis=1)
DropYear(t) ==
    [i \in 1..Len(t) |-> [c \in DOMAIN t[i] \ {"year"} |-> t[i][c]]]

\* the plant frame sheet of a year: plant 1 with its state, its sector and
\* a naics_code that tells the years apart, or no row for the plant
FrameSheets(y) ==
    IF y < FrameStart THEN {<<>>}
    ELSE {<<>>} \cup
         {<<[plant_id |-> 1, plant_state |-> s, eia_sector |-> e,
             naics_code |-> y % 100]>> : s \in {1, 2}, e \in {1, 2}}

FrameBooks ==
    {f \in [InfoYears -> UNION {FrameSheets(y) : y \in InfoYears}] :
        \A y \in InfoYears : f[y] \in FrameSheets(y)}

\* generation_fuel: no rows, plant 1 in one year, plants 1 and 2 over the years
FuelBooks ==
    {[y \in InfoYears |-> <<>>],
     [y \in InfoYears |->
        IF y = FrameStart THEN <<[plant_id |-> 1, nerc_region |-> 1]>> ELSE <<>>],
     [y \in InfoYears |->
        IF y = FrameStart THEN <<[plant_id |-> 1, nerc_region |-> NaN]>>
        ELSE IF y > FrameStart
             THEN <<[plant_id |-> 1, nerc_region |-> 2],
                    [plant_id |-> 2, nerc_region |-> 1]>>
             ELSE <<[plant_id |-> 2, nerc_region |-> 2]>>]}

\* boiler_fuel and generator: no rows, or plant 2 every year
BoilerBooks ==
    {[y \in InfoYears |-> <<>>], [y \in InfoYears |-> <<[plant_id |-> 2]>>]}

\* fuel_receipts_costs: no rows, or plants 1 and 3 every year
ReceiptBooks ==
    {[y \in InfoYears |-> <<>>],
     [y \in InfoYears |-> <<[plant_id |-> 1], [plant_id |-> 3]>>]}

\* the years argument: one or two of the years, in either order
InfoYearLists ==
    {ys \in SeqsUpTo(InfoYears, 2) :
        ys # <<>> /\ \A i, j \in 1..Len(ys) : i # j => ys[i] # ys[j]}

InfoInit ==
    /\ iyears \in InfoYearLists
    /\ \E f \in FrameBooks, g \in FuelBooks, b \in BoilerBooks, r \in ReceiptBooks :
          book = [plant_frame |-> f, generation_fuel |-> g, boiler_fuel |-> b,
                  generator |-> b, fuel_receipts_costs |-> r]
    /\ pf = <<>> /\ gf = <<>> /\ others = <<>> /\ df_all_years = <<>>
    /\ ipc = "start" /\ iret = <<>>
    /\ PageIdle /\ MonthIdle /\ CleanIdle /\ TransIdle

\* lines 225-239
InfoPlantFrame ==
    /\ ipc = "start"
    /\ LET recent_years == SelectSeq(iyears, LAMBDA y : y >= FrameStart)
       IN pf' = IF Len(recent_years) > 0
                THEN SortYearDescending(PageRows(book, "plant_frame", recent_years))
                ELSE <<>>
    /\ ipc' = "pages"
    /\ UNCHANGED <<iyears, book, gf, others, df_all_years, iret,
                   pageVars, monthVars, cleanVars, transVars>>

\* lines 241-264: the four other pages, each sorted and cut down to one
\* row for a plant
InfoPages ==
    /\ ipc = "pages"
    /\ gf' = DropDuplicatePlants(
                 SortYearDescending(PageRows(book, "generation_fuel", iyears)))
    /\ LET bf == DropDuplicatePlants(
                     SortYearDescending(PageRows(book, "boiler_fuel", iyears)))
           g == DropDuplicatePlants(
                    SortYearDescending(PageRows(book, "generator", iyears)))
           frc == DropDuplicatePlants(
                      SortPlantDescending(PageRows(book, "fuel_receipts_costs", iyears)))
       IN others' = PlantIdsOf(bf) \o PlantIdsOf(g) \o PlantIdsOf(frc)
    /\ ipc' = "merge"
    /\ UNCHANGED <<iyears, book, pf, df_all_years, iret,
                   pageVars, monthVars, cleanVars, transVars>>

\* lines 266-276
InfoMerge ==
    /\ ipc = "merge"
    /\ LET plant_ids == Unique(PlantIdsOf(pf) \o PlantIdsOf(gf) \o others)
       IN df_all_years' = MergeRegion(MergePlantFrame(plant_ids, pf), gf)
    /\ ipc' = "sort"
    /\ UNCHANGED <<iyears, book, pf, gf, others, iret,
                   pageVars, monthVars, cleanVars, transVars>>

\* lines 277-284
InfoReturn ==
    /\ ipc = "sort"
    /\ df_all_years' = DropYear(DropDuplicatePlants(SortByKeys(df_all_years)))
    /\ iret' = <<df_all_years'>>
    /\ ipc' = "done"
    /\ UNCHANGED <<iyears, book, pf, gf, others,
                   pageVars, monthVars, cleanVars, transVars>>

InfoNext == InfoPlantFrame \/ InfoPages \/ InfoMerge \/ InfoReturn

SpecPlantInfo == InfoInit /\ [][InfoNext]_vars

(***************************************************************************)
(* Properties of get_eia923_plant_info.                                    *)
(***************************************************************************)
InfoPageNames == {"generation_fuel", "boiler_fuel", "generator", "fuel_receipts_costs"}

\* the plant frame rows of the requested years, as read
FrameRead == PageRows(book, "plant_frame", SelectSeq(iyears, LAMBDA y : y >= FrameStart))

\* the plants on any of the five pages, in the years that are read
PlantsRead ==
    Range(PlantIdsOf(FrameRead))
    \cup UNION {Range(PlantIdsOf(PageRows(book, pg, iyears))) : pg \in InfoPageNames}

InfoResult == iret[1]

\* the plant frame rows of plant p
FrameRowsOf(p) == {FrameRead[i] : i \in {j \in 1..Len(FrameRead) : FrameRead[j].plant_id = p}}

\* the row of the result holds the plant frame fields of the row r
Retains(p, r) ==
    \A i \in 1..Len(InfoResult) :
        InfoResult[i].plant_id = p =>
            /\ InfoResult[i].plant_state = r.plant_state
            /\ InfoResult[i].eia_sector = r.eia_sector
            /\ InfoResult[i].naics_code = r.naics_code

OneRowPerPlant ==
    /\ Range(PlantIdsOf(InfoResult)) = PlantsRead
    /\ Len(InfoResult) = Cardinality(PlantsRead)

\* C17 as stated: the result has one row for every plant of the pages read,
\* and a plant of the plant frame keeps the fields of its most recent year
C17_MostRecentWins ==
    ipc = "done" =>
        /\ OneRowPerPlant
        /\ \A p \in PlantsRead : \A r \in FrameRowsOf(p) :
              (\A q \in FrameRowsOf(p) : q.year <= r.year) => Retains(p, r)

\* the plant frame row that comes first on plant_state, then eia_sector
FrameBefore(a, b) ==
    \/ ValueBefore(a.plant_state, b.plant_state)
    \/ a.plant_state = b.plant_state /\ ValueBefore(a.eia_sector, b.eia_sector)

\* what holds instead: the result has one row for every plant of the pages
\* read; a plant of the plant frame keeps the fields of the row that comes
\* first on plant_state, then eia_sector, and the most recent year wins
\* only among the rows that are equal on both
C17_FirstInSortOrder ==
    ipc = "done" =>
        /\ OneRowPerPlant
        /\ \A p \in PlantsRead : \A r \in FrameRowsOf(p) :
              (\A q \in FrameRowsOf(p) :
                  /\ ~FrameBefore(q, r)
                  /\ (~FrameBefore(r, q)) => q.year <= r.year)
                      => Retains(p, r)

\* plant 1 in two years with the same state and sector: the later year's
\* naics_code is kept; plant 3 comes from fuel_receipts_costs alone
C17_TieWitness ==
    /\ ipc = "done"
    /\ Cardinality(FrameRowsOf(1)) = 2
    /\ \A q \in FrameRowsOf(1) : q.plant_state = 2 /\ q.eia_sector = 1
    /\ 3 \in PlantsRead /\ OneRowPerPlant
    /\ \E i \in 1..Len(InfoResult) :
          InfoResult[i].plant_id = 1 /\ InfoResult[i].naics_code = (FrameStart + 1) % 100


(***************************************************************************)
(* yearly_to_monthly_eia923(df, md).  A column name is a record: the       *)
(* generic field name and the month its month-specific part names (0 for   *)
(* a column that is not month-specific).  md maps 1..12 to the patterns.   *)
(***************************************************************************)
MaxTblRows == 3    \* most rows of an annual table
MaxGroups == 2     \* most month-pattern field groups

NumMonths == 12

FieldNames == <<"netgen", "fuel_consumed", "heat_content">>

\* the annual table with n rows carrying the index labels lab and g groups
AnnualTable(lab, g) ==
    LET cols == {[field |-> "plant_id", month |-> 0]}
                \cup {[field |-> FieldNames[j], month |-> m] :
                         j \in 1..g, m \in 1..NumMonths}
    IN [cols |-> cols,
        rows |-> [i \in 1..Len(lab) |->
                    [idx |-> lab[i], pos |-> 1,
                     cells |-> [c \in cols |->
                                  IF c.month = 0 THEN 70 + i ELSE 100 * i + c.month]]]]

\* yearly.filter(regex=md[m]): the columns whose name the pattern matches
MonthCols(t, m) == {c \in t.cols : c.month = m}

\* columns.str.replace(md[m], '')
StripMonth(c) == [field |-> c.field, month |-> 0]

MonthCol == [field |-> "month", month |-> 0]

RECURSIVE MergeOnIndex(_, _)
\* left.merge(right, left_index=True, right_index=True): an inner join on
\* the index labels, every left row paired with every right row of its label
MergeOnIndex(left, right) ==
    IF left.rows = <<>> THEN [cols |-> left.cols \cup right.cols, rows |-> <<>>]
    ELSE LET l == Head(left.rows)
             hits == SelectSeq(right.rows, LAMBDA r : r.idx = l.idx)
             joined == [j \in 1..Len(hits) |->
                          [idx |-> l.idx, pos |-> l.pos,
                           cells |-> [c \in left.cols \cup right.cols |->
                                        IF c \in left.cols THEN l.cells[c]
                                        ELSE hits[j].cells[c]]]]
             rest == MergeOnIndex([left EXCEPT !.rows = Tail(left.rows)], right)
         IN [cols |-> left.cols \cup right.cols, rows |-> joined \o rest.rows]

MonthInit ==
    /\ \E n \in 1..MaxTblRows, g \in 1..MaxGroups :
          \E lab \in [1..n -> 0..(MaxRows - 1)] : mdf = AnnualTable(lab, g)
    /\ yearly = EmptyTable /\ monthly = EmptyTable
    /\ mi = 0 /\ mpc = "start" /\ mres = <<>>
    /\ PageIdle /\ CleanIdle /\ TransIdle /\ InfoIdle

\* yearly = df.copy(); monthly = pd.DataFrame()
MonthStart ==
    /\ mpc = "start"
    /\ yearly' = mdf /\ monthly' = EmptyTable
    /\ mi' = 1 /\ mpc' = "loop"
    /\ UNCHANGED <<mdf, mres, pageVars, cleanVars, transVars, infoVars>>

\* one pass of the loop over md.keys()
MonthStep ==
    /\ mpc = "loop" /\ mi <= NumMonths
    /\ LET mcols == MonthCols(yearly, mi)
           this_month == DropCols(yearly, yearly.cols \ mcols)
           renamed == RenameCols(this_month, [c \in this_month.cols |-> StripMonth(c)])
           tagged == SetCol(renamed, MonthCol, mi)
       IN /\ yearly' = DropCols(yearly, mcols)
          /\ monthly' = DfAppend(monthly, tagged)
    /\ mi' = mi + 1
    /\ UNCHANGED <<mdf, mpc, mres, pageVars, cleanVars, transVars, infoVars>>

\* return(yearly.merge(monthly, left_index=True, right_index=True))
MonthMerge ==
    /\ mpc = "loop" /\ mi > NumMonths
    /\ mres' = <<MergeOnIndex(yearly, monthly)>>
    /\ mpc' = "done"
    /\ UNCHANGED <<mdf, yearly, monthly, mi, pageVars, cleanVars, transVars, infoVars>>

MonthNext == MonthStart \/ MonthStep \/ MonthMerge

SpecMonthly == MonthInit /\ [][MonthNext]_vars

\* C1: the expansion of a non-empty annual table has 12 rows per input row,
\* whatever the index labels of the input are
C1_TwelvePerRow ==
    mpc = "done" => Len(mres[1].rows) = NumMonths * Len(mdf.rows)

\* the same count for the tables whose index labels are all different
C1_UniqueLabels ==
    (mpc = "done" /\ \A i, j \in 1..Len(mdf.rows) :
                         i # j => mdf.rows[i].idx # mdf.rows[j].idx)
        => Len(mres[1].rows) = NumMonths * Len(mdf.rows)


(***************************************************************************)
(* cleanstringsEIA923(field, stringmap, unmapped).  A string is a sequence *)
(* of characters; field is one cell of the column (str.upper, str.strip    *)
(* and replace act cell by cell); stringmap is the sequence of its items   *)
(* in iteration order, each a key and the strings listed under it.  The    *)
(* function is applied to its own result a second time.                    *)
(***************************************************************************)
MaxStrLen == 2     \* longest input string
MaxLongLen == 4    \* longest input string of the runs without a map

Chars == {"a", "A", "B", " ", "+"}

WhiteSpace == {" ", "\t"}

\* the unmapped=None default
None == <<"None">>

\* str.upper()
Upper(s) == [i \in 1..Len(s) |-> IF s[i] = "a" THEN "A" ELSE s[i]]

RECURSIVE LStrip(_)
LStrip(s) == IF s # <<>> /\ Head(s) \in WhiteSpace THEN LStrip(Tail(s)) ELSE s

RECURSIVE RStrip(_)
RStrip(s) == IF s # <<>> /\ s[Len(s)] \in WhiteSpace
             THEN RStrip(SubSeq(s, 1, Len(s) - 1)) ELSE s

\* str.strip()
Strip(s) == RStrip(LStrip(s))

\* field.replace('[\s+]', ' ', regex=True): every character of the class,
\* a whitespace character or a plus sign, becomes one space
ReplaceWs(s) ==
    [i \in 1..Len(s) |-> IF s[i] \in WhiteSpace \cup {"+"} THEN " " ELSE s[i]]

\* lines 368-370
Normalize(s) == ReplaceWs(Strip(Upper(s)))

Keys(m) == {m[i].key : i \in 1..Len(m)}

\* a variant of KeyAt that walks the map backwards
KeyAtReversed(m, i) == m[Len(m) + 1 - i]

\* the i-th item of stringmap.keys()
KeyAt(m, i) == m[i]

\* field.replace(stringmap[k], k): a cell equal to one of the strings listed
\* under k becomes k
ReplaceStep(v, item) == IF v \in item.syns THEN item.key ELSE v

\* a variant of UnmappedStep that replaces the mapped values
UnmappedStepInverted(v, m, u) == IF u # None /\ v \in Keys(m) THEN u ELSE v

\* lines 375-377: a cell that is no key becomes unmapped
UnmappedStep(v, m, u) == IF u # None /\ v \notin Keys(m) THEN u ELSE v

Strings == SeqsUpTo(Chars, MaxStrLen)

KeyPool == {<<"A">>, <<"a">>, <<"B">>}

SynPool == {{<<"A">>}, {<<"B">>}, {<<"A", "A">>}, {<<"B">>, <<"A", "A">>}}

Items == [key : KeyPool, syns : SynPool]

\* the maps of at most two items, their keys distinct as in a dict
StringMaps == {m \in SeqsUpTo(Items, 2) :
                  \A i, j \in 1..Len(m) : i # j => m[i].key # m[j].key}

UnmappedChoices == {None, <<"a">>, <<"B">>}

\* longer strings of letters, blanks, tabs and plus signs, cleaned with an
\* empty map
LongStrings == SeqsUpTo({"A", " ", "\t", "+"}, MaxLongLen)

CleanInit ==
    /\ \/ /\ cinput \in Strings
          /\ stringmap \in StringMaps
          /\ unmapped \in UnmappedChoices
       \/ /\ cinput \in LongStrings
          /\ stringmap = <<>>
          /\ unmapped = None
    /\ field = cinput /\ ki = 0 /\ cpc = "start" /\ cpass = 1 /\ out1 = <<>>
    /\ PageIdle /\ MonthIdle /\ TransIdle /\ InfoIdle

\* lines 368-370
CleanNormalize ==
    /\ cpc = "start"
    /\ field' = Normalize(field)
    /\ ki' = 1 /\ cpc' = "loop"
    /\ UNCHANGED <<cinput, stringmap, unmapped, cpass, out1, pageVars, monthVars, transVars, infoVars>>

\* one pass of the loop of lines 372-373
CleanReplace ==
    /\ cpc = "loop" /\ ki <= Len(stringmap)
    /\ field' = ReplaceStep(field, KeyAt(stringmap, ki))
    /\ ki' = ki + 1
    /\ UNCHANGED <<cinput, stringmap, unmapped, cpc, cpass, out1, pageVars, monthVars, transVars, infoVars>>

\* lines 375-379
CleanReturn ==
    /\ cpc = "loop" /\ ki > Len(stringmap)
    /\ field' = UnmappedStep(field, stringmap, unmapped)
    /\ cpc' = "done"
    /\ UNCHANGED <<cinput, stringmap, unmapped, ki, cpass, out1, pageVars, monthVars, transVars, infoVars>>

\* the result is passed to the function again, with the same map and policy
CleanAgain ==
    /\ cpc = "done" /\ cpass = 1
    /\ out1' = field /\ cpass' = 2 /\ cpc' = "start" /\ ki' = 0
    /\ UNCHANGED <<cinput, stringmap, unmapped, field, pageVars, monthVars, transVars, infoVars>>

CleanNext == CleanNormalize \/ CleanReplace \/ CleanReturn \/ CleanAgain

SpecClean == CleanInit /\ [][CleanNext]_vars

(***************************************************************************)
(* Properties of cleanstringsEIA923.                                       *)
(***************************************************************************)
\* a string in the form the first step produces and keeps: no lower-case
\* letter, no '+', no whitespace but single blanks, none at either end
IsNormalForm(s) ==
    /\ \A i \in 1..Len(s) : s[i] \notin {"a", "+", "\t"}
    /\ s # <<>> => s[1] # " " /\ s[Len(s)] # " "

AllSyns(m) == UNION {m[i].syns : i \in 1..Len(m)}

KeysNormal == \A i \in 1..Len(stringmap) : IsNormalForm(stringmap[i].key)

NoKeyUnderOtherKey ==
    \A i, j \in 1..Len(stringmap) :
        i # j => stringmap[i].key \notin stringmap[j].syns

\* the substitute is a key, or is a string no item of the map touches
UnmappedStable ==
    \/ unmapped = None
    \/ unmapped \in Keys(stringmap)
    \/ Normalize(unmapped) \notin Keys(stringmap) \cup AllSyns(stringmap)

\* the input, once trimmed, has no '+' at either end
NoEdgePlus ==
    LET t == Strip(cinput) IN t # <<>> => t[1] # "+" /\ t[Len(t)] # "+"

\* C9 as stated: the second application changes nothing, for every map and
\* every unmapped policy (on the inputs without a '+' at either end, which
\* the first step alone already treats differently the second time)
C9_Idempotent ==
    (cpc = "done" /\ cpass = 2 /\ NoEdgePlus) => field = out1

\* C9 amended: the second application changes nothing when every key is in
\* normal form, no key is listed under another key, the unmapped substitute
\* is None, a key or a string the map does not touch, and, with unmapped
\* None, the trimmed input has no '+' at either end
C9_IdempotentNormalKeys ==
    (/\ cpc = "done" /\ cpass = 2
     /\ KeysNormal /\ NoKeyUnderOtherKey /\ UnmappedStable
     /\ unmapped = None => NoEdgePlus)
        => field = out1

C9_Witness ==
    /\ cpc = "done" /\ cpass = 2
    /\ KeysNormal /\ NoKeyUnderOtherKey /\ UnmappedStable
    /\ unmapped # None /\ unmapped \notin Keys(stringmap)
    /\ Normalize(cinput) \in AllSyns(stringmap)
    /\ out1 \in Keys(stringmap) /\ out1 # cinput /\ field = out1

\* the items whose strings the normalized input matches
Matching == {i \in 1..Len(stringmap) : Normalize(cinput) \in stringmap[i].syns}

FirstMatch == CHOOSE i \in Matching : \A j \in Matching : i <= j

\* C10 as stated: a value that matches the strings of several keys ends up
\* as the key processed first among them
C10_FirstKeyWins ==
    (cpc = "done" /\ cpass = 1 /\ Matching # {})
        => field = stringmap[FirstMatch].key

\* C10 amended: it ends up as the first matching key unless that key is
\* itself listed under a key processed later, and then it does not
C10_FirstKeyUnlessChained ==
    (cpc = "done" /\ cpass = 1 /\ Matching # {}) =>
        LET k == stringmap[FirstMatch].key
            chained == \E j \in (FirstMatch + 1)..Len(stringmap) :
                          k \in stringmap[j].syns
        IN IF chained THEN field # k ELSE field = k

C10_Witness ==
    /\ cpc = "done" /\ cpass = 1
    /\ Cardinality(Matching) = 2
    /\ field = stringmap[1].key

\* the characters of s that are no whitespace
NonWhite(s) == SelectSeq(s, LAMBDA c : c \notin WhiteSpace)

NoAdjacentSpaces(s) == \A i \in 1..(Len(s) - 1) : ~(s[i] = " " /\ s[i + 1] = " ")

\* C11: after the first step (upper, strip, whitespace replacement) the value
\* has no two adjacent spaces and has the non-whitespace characters of the
\* upper-cased, trimmed input, in the same order (on the inputs without a
\* plus sign, which the first step turns into a blank as well)
C11_CollapsesRuns ==
    (cpc = "loop" /\ ki = 1 /\ cpass = 1 /\ "+" \notin Range(cinput)) =>
        /\ NoAdjacentSpaces(field)
        /\ NonWhite(field) = NonWhite(Strip(Upper(cinput)))

\* the part of C11 the code keeps: the value is upper case and has no
\* whitespace but blanks and no plus sign, and as many characters as the
\* upper-cased, trimmed input
C11_CharByChar ==
    (cpc = "loop" /\ ki = 1 /\ cpass = 1) =>
        /\ Len(field) = Len(Strip(Upper(cinput)))
        /\ \A i \in 1..Len(field) : field[i] \notin {"a", "\t", "+"}


(***************************************************************************)
(* pudl/transform/eia860.py.  A Form 860 table is the sequence of its      *)
(* rows.  An id cell is a typed value: its dtype and its text.  A          *)
(* fraction is a pair numerator / denominator, 0/0 standing for NaN.       *)
(***************************************************************************)
MaxOwnRows == 2    \* most rows of the ownership page
MaxGenRows == 3    \* most rows of the three generator pages together

NaNCell == [t |-> "float", v |-> "nan"]

IsNa(c) == c = NaNCell

\* pudl.helpers.fix_eia_na: a cell holding '.' or blanks becomes NaN
FixNa(c) == IF c.t = "str" /\ c.v \in {".", " ", ""} THEN NaNCell ELSE c

\* whether astype(int) accepts the cell
CanInt(c) == \/ c.t = "int"
             \/ c.t = "float" /\ c.v # "nan"
             \/ c.t = "str" /\ c.v \in {"1", "10"}

\* astype(int)
AsInt(c) == [t |-> "int", v |-> c.v]

\* astype(str): a float prints with its decimal point, NaN as 'nan'
AsStr(c) ==
    [t |-> "str",
     v |-> IF c.t = "float" /\ c.v = "1" THEN "1.0"
           ELSE IF c.t = "float" /\ c.v = "10" THEN "10.0" ELSE c.v]

StrCell(x) == [t |-> "str", v |-> x]

BoolCell(b) == [t |-> "bool", v |-> b]

\* replace(to_replace='X', value='N')
XToN(c) == IF c = StrCell("X") THEN StrCell("N") ELSE c

\* fillna('False'): the filler is the string 'False'
FillNaFalse(c) == IF IsNa(c) THEN StrCell("False") ELSE c

\* replace(to_replace=["Y", "N"], value=[True, False])
ReplaceYN(c) ==
    CASE c = StrCell("Y") -> BoolCell("True")
      [] c = StrCell("N") -> BoolCell("False")
      [] OTHER -> c

\* the body of the loops over boolean_columns_to_fix
FixBoolean(c) == ReplaceYN(FillNaFalse(c))

\* str.isnumeric() on a cell of strings
IsNumeric(c) == c.t = "str" /\ c.v \in {"1", "10"}

\* the result of a transformer that raises
Raised(e) == [err |-> e, df |-> <<>>]

\* the result of a transformer that stores the table t
Stored(t) == [err |-> "none", df |-> t]

\* for table in eia860_transform_functions
TransformOrder == <<"ownership_eia860", "generators_eia860", "plants_eia860",
                    "boiler_generator_assn_eia860", "utilities_eia860">>

EmptyDict == <<>>

\* a variant of DictSet that forgets the other entries
DictSetOnly(d, k, v) == [x \in {k} |-> v]

\* d[k] = v
DictSet(d, k, v) == [x \in DOMAIN d \cup {k} |-> IF x = k THEN v ELSE d[x]]

(***************************************************************************)
(* ownership(eia860_dfs, eia860_transformed_dfs)                           *)
(***************************************************************************)
PercentYear == 2011

\* a variant of OwnYearsOk that lets the older years through
OwnYearsOkLax(t) == TRUE

\* assert min(o_df.report_date.dt.year) >= 2011
OwnYearsOk(t) == \A i \in 1..Len(t) : t[i].report_year >= PercentYear

\* a variant of IsPercentRow that takes every row
IsPercentRowAll(r) == r.report_year >= PercentYear

\* o_df.report_date.dt.year == 2011
IsPercentRow(r) == r.report_year = PercentYear

\* fraction / 100
Div100(f) == [num |-> f.num, den |-> f.den * 100]

\* lines 36-37
DivideFractions(t) ==
    [i \in 1..Len(t) |->
        IF IsPercentRow(t[i])
        THEN [t[i] EXCEPT !.fraction_owned = Div100(t[i].fraction_owned)]
        ELSE t[i]]

OwnIdCols == {"owner_utility_id_eia", "utility_id_eia", "plant_id_eia"}

\* fix_eia_na on the id cells of every row
OwnFixNa(t) ==
    [i \in 1..Len(t) |->
        [t[i] EXCEPT !.owner_utility_id_eia = FixNa(@),
                     !.utility_id_eia = FixNa(@),
                     !.plant_id_eia = FixNa(@)]]

\* lines 39-41
OwnCastOk(t) ==
    \A i \in 1..Len(t) :
        CanInt(t[i].owner_utility_id_eia) /\ CanInt(t[i].utility_id_eia)
        /\ CanInt(t[i].plant_id_eia)

OwnCast(t) ==
    [i \in 1..Len(t) |->
        [t[i] EXCEPT !.owner_utility_id_eia = AsInt(@),
                     !.utility_id_eia = AsInt(@),
                     !.plant_id_eia = AsInt(@)]]

\* ownership as a whole: what it raises or the table it stores
OwnershipResult(dfs) ==
    IF "ownership" \notin DOMAIN dfs THEN Raised("KeyError")
    ELSE LET t == OwnFixNa(dfs["ownership"])
         IN IF t = <<>> THEN Raised("ValueError")
            ELSE IF ~OwnYearsOk(t) THEN Raised("AssertionError")
            ELSE IF ~OwnCastOk(DivideFractions(t)) THEN Raised("ValueError")
            ELSE Stored(OwnCast(DivideFractions(t)))

(***************************************************************************)
(* generators(eia860_dfs, eia860_transformed_dfs).  Of the columns the     *)
(* function rewrites, the model carries the identifiers and the three      *)
(* boolean columns of lines 115-120.                                       *)
(***************************************************************************)
GenPages == <<"generator_existing", "generator_proposed", "generator_retired">>

\* a variant of StatusCode with the retired page tagged like the existing one
StatusCodeSlip(pg) ==
    IF pg = "generator_proposed" THEN "proposed" ELSE "existing"

\* lines 72-74
StatusCode(pg) ==
    CASE pg = "generator_proposed" -> "proposed"
      [] pg = "generator_existing" -> "existing"
      [] pg = "generator_retired" -> "retired"

Tagged(t, pg) ==
    [i \in 1..Len(t) |->
        [c \in DOMAIN t[i] \cup {"operational_status_code"} |->
            IF c = "operational_status_code" THEN StatusCode(pg) ELSE t[i][c]]]

\* pd.concat([ge_df, gp_df, gr_df], sort=True)
GenConcat(dfs) ==
    Tagged(dfs["generator_existing"], "generator_existing")
    \o Tagged(dfs["generator_proposed"], "generator_proposed")
    \o Tagged(dfs["generator_retired"], "generator_retired")

\* a variant of Unidentifiable that asks for both identifiers to be missing
UnidentifiableBoth(r) == IsNa(r.generator_id) /\ IsNa(r.plant_id_eia)

\* dropna(subset=['generator_id', 'plant_id_eia']) drops such a row
Unidentifiable(r) == IsNa(r.generator_id) \/ IsNa(r.plant_id_eia)

GenDropNa(t) == SelectSeq(t, LAMBDA r : ~Unidentifiable(r))

GenFixNa(t) ==
    [i \in 1..Len(t) |->
        [t[i] EXCEPT !.generator_id = FixNa(@), !.plant_id_eia = FixNa(@),
                     !.utility_id_eia = FixNa(@),
                     !.duct_burners = FixNa(@),
                     !.heat_bypass_recovery = FixNa(@),
                     !.syncronized_transmission_grid = FixNa(@)]]

\* lines 115-120, in program order: the third assignment reads the
\* heat_bypass_recovery column the second one has just written
GenXToN(t) ==
    [i \in 1..Len(t) |->
        LET r1 == [t[i] EXCEPT !.duct_burners = XToN(@)]
            r2 == [r1 EXCEPT !.heat_bypass_recovery = XToN(@)]
        IN [r2 EXCEPT !.syncronized_transmission_grid =
                          XToN(r2.heat_bypass_recovery)]]

\* lines 154-157
GenBooleans(t) ==
    [i \in 1..Len(t) |->
        [t[i] EXCEPT !.duct_burners = FixBoolean(@),
                     !.syncronized_transmission_grid = FixBoolean(@),
                     !.heat_bypass_recovery = FixBoolean(@)]]

\* lines 173-175
GenCastOk(t) ==
    \A i \in 1..Len(t) : CanInt(t[i].plant_id_eia) /\ CanInt(t[i].utility_id_eia)

GenCast(t) ==
    [i \in 1..Len(t) |->
        [t[i] EXCEPT !.plant_id_eia = AsInt(@), !.generator_id = AsStr(@),
                     !.utility_id_eia = AsInt(@)]]

\* generators as a whole
GeneratorsResult(dfs) ==
    IF ~(Range(GenPages) \subseteq DOMAIN dfs) THEN Raised("KeyError")
    ELSE LET gens_df ==
                 GenBooleans(GenXToN(GenFixNa(GenDropNa(GenConcat(dfs)))))
         IN IF GenCastOk(gens_df) THEN Stored(GenCast(gens_df))
            ELSE Raised("ValueError")


(***************************************************************************)
(* plants(eia860_dfs, eia860_transformed_dfs).  ash_impoundment_lined      *)
(* stands for the three columns whose 'X' is rewritten, energy_storage     *)
(* for the boolean columns that are not.                                   *)
(***************************************************************************)
PlantFixNa(t) ==
    [i \in 1..Len(t) |-> [c \in DOMAIN t[i] |-> FixNa(t[i][c])]]

\* lines 210-237
PlantColumns(t) ==
    [i \in 1..Len(t) |->
        [t[i] EXCEPT !.zip_code = AsStr(@),
                     !.ash_impoundment_lined = FixBoolean(XToN(@)),
                     !.energy_storage = FixBoolean(@)]]

PlantIdCols == {"plant_id_eia", "utility_id_eia", "primary_purpose_naics_id"}

\* lines 240-243
PlantCastOk(t) == \A i \in 1..Len(t) : \A c \in PlantIdCols : CanInt(t[i][c])

PlantCast(t) ==
    [i \in 1..Len(t) |->
        [c \in DOMAIN t[i] |-> IF c \in PlantIdCols THEN AsInt(t[i][c]) ELSE t[i][c]]]

\* plants as a whole
PlantsResult(dfs) ==
    IF "plant" \notin DOMAIN dfs THEN Raised("KeyError")
    ELSE LET p_df == PlantColumns(PlantFixNa(dfs["plant"]))
         IN IF PlantCastOk(p_df) THEN Stored(PlantCast(p_df))
            ELSE Raised("ValueError")

(***************************************************************************)
(* boiler_generator_assn(eia860_dfs, eia860_transformed_dfs)               *)
(***************************************************************************)
b_g_cols == {"report_year", "utility_id_eia", "plant_id_eia", "boiler_id",
             "generator_id"}

\* b_g_df[b_g_cols]
BgaSelect(t) == [i \in 1..Len(t) |-> [c \in b_g_cols |-> t[i][c]]]

\* line 279
BgaUtilityStr(t) ==
    [i \in 1..Len(t) |-> [t[i] EXCEPT !.utility_id_eia = AsStr(@)]]

\* line 280
BgaNumericOnly(t) == SelectSeq(t, LAMBDA r : IsNumeric(r.utility_id_eia))

\* line 282
BgaCastOk(t) == \A i \in 1..Len(t) : CanInt(t[i].plant_id_eia)

\* lines 282-287
BgaCast(t) ==
    [i \in 1..Len(t) |->
        [t[i] EXCEPT !.plant_id_eia = AsInt(@), !.generator_id = AsStr(@),
                     !.boiler_id = AsStr(@)]]

\* drop_duplicates(): the first of the rows that agree on every column stays
RECURSIVE DropDuplicates(_)
DropDuplicates(t) ==
    IF t = <<>> THEN <<>>
    ELSE LET front == SubSeq(t, 1, Len(t) - 1)
             rest == DropDuplicates(front)
         IN IF t[Len(t)] \in Range(front) THEN rest ELSE Append(rest, t[Len(t)])

\* dropna()
BgaDropNa(t) == SelectSeq(t, LAMBDA r : \A c \in DOMAIN r : ~IsNa(r[c]))

\* boiler_generator_assn as a whole
BgaResult(dfs) ==
    IF "boiler_generator_assn" \notin DOMAIN dfs THEN Raised("KeyError")
    ELSE LET kept == BgaNumericOnly(BgaUtilityStr(
                         BgaSelect(dfs["boiler_generator_assn"])))
         IN IF BgaCastOk(kept)
            THEN Stored(BgaDropNa(DropDuplicates(BgaCast(kept))))
            ELSE Raised("ValueError")

(***************************************************************************)
(* utilities(eia860_dfs, eia860_transformed_dfs).  plants_reported_owner   *)
(* stands for the four boolean columns.                                    *)
(***************************************************************************)
UtilFixNa(t) ==
    [i \in 1..Len(t) |-> [c \in DOMAIN t[i] |-> FixNa(t[i][c])]]

\* u_df.state.str.upper()
UpperState(c) ==
    CASE c = StrCell("qb") -> StrCell("QB")
      [] c = StrCell("y") -> StrCell("Y")
      [] c = StrCell("ny") -> StrCell("NY")
      [] OTHER -> c

\* u_df.state.replace({'QB': 'QC', 'Y': 'NY'})
FixState(c) ==
    CASE c = StrCell("QB") -> StrCell("QC")
      [] c = StrCell("Y") -> StrCell("NY")
      [] OTHER -> c

\* lines 317-333
UtilColumns(t) ==
    [i \in 1..Len(t) |->
        [t[i] EXCEPT !.state = FixState(UpperState(@)),
                     !.plants_reported_owner = FixBoolean(@)]]

\* line 337
UtilCastOk(t) == \A i \in 1..Len(t) : CanInt(t[i].utility_id_eia)

UtilCast(t) ==
    [i \in 1..Len(t) |-> [t[i] EXCEPT !.utility_id_eia = AsInt(@)]]

\* utilities as a whole
UtilitiesResult(dfs) ==
    IF "utility" \notin DOMAIN dfs THEN Raised("KeyError")
    ELSE LET u_df == UtilColumns(UtilFixNa(dfs["utility"]))
         IN IF UtilCastOk(u_df) THEN Stored(UtilCast(u_df))
            ELSE Raised("ValueError")


(***************************************************************************)
(* transform(eia860_raw_dfs, eia860_tables)                                *)
(***************************************************************************)
MaxBoolRows == 1   \* most rows of a page whose boolean cells vary
MaxBgaRows == 2    \* most rows of the boiler_generator_assn page

OkId == [t |-> "float", v |-> "1"]

Fractions == {[num |-> 45, den |-> 1], [num |-> 3, den |-> 10], [num |-> 0, den |-> 0]}

OwnIds == {<<OkId, OkId, OkId>>, <<NaNCell, OkId, OkId>>,
           <<OkId, OkId, [t |-> "str", v |-> "."]>>}

OwnRows == {[report_year |-> y, fraction_owned |-> f,
             owner_utility_id_eia |-> ids[1], utility_id_eia |-> ids[2],
             plant_id_eia |-> ids[3]] :
               y \in {2010, 2011, 2012}, f \in Fractions, ids \in OwnIds}

\* generator rows whose identifiers vary
GenRows == [generator_id : {[t |-> "str", v |-> "G1"], NaNCell, [t |-> "str", v |-> "."]},
            plant_id_eia : {OkId, NaNCell},
            utility_id_eia : {[t |-> "float", v |-> "10"]},
            duct_burners : {StrCell("Y")},
            heat_bypass_recovery : {StrCell("N")},
            syncronized_transmission_grid : {StrCell("Y")}]

\* the cells of a boolean column as read: a token or nothing
BoolTokens == {StrCell("Y"), StrCell("N"), StrCell("X"), NaNCell}

\* generator rows whose boolean cells vary
GenBoolRows == [generator_id : {[t |-> "str", v |-> "G1"]},
                plant_id_eia : {OkId},
                utility_id_eia : {[t |-> "float", v |-> "10"]},
                duct_burners : {StrCell("Y"), StrCell("X"), StrCell(".")},
                heat_bypass_recovery : BoolTokens,
                syncronized_transmission_grid : BoolTokens]

PlantRows == [plant_id_eia : {OkId, NaNCell},
              utility_id_eia : {OkId},
              primary_purpose_naics_id : {[t |-> "float", v |-> "10"]},
              zip_code : {[t |-> "int", v |-> "1"]},
              ash_impoundment_lined : BoolTokens,
              energy_storage : {StrCell("Y"), StrCell("N"), NaNCell, StrCell(".")}]

UtilRows == [utility_id_eia : {OkId, StrCell(".")},
             state : {StrCell("qb"), StrCell("y"), StrCell("ny"), NaNCell},
             plants_reported_owner : {StrCell("Y"), StrCell("N"), NaNCell}]

BgaRows == [report_year : {[t |-> "int", v |-> "2011"], NaNCell},
            utility_id_eia : {[t |-> "int", v |-> "1"], OkId, StrCell("note")},
            plant_id_eia : {OkId, NaNCell},
            boiler_id : {StrCell("B1")},
            generator_id : {[t |-> "int", v |-> "1"], StrCell("1")},
            steam_plant_type : {StrCell("x")}]

DefaultOwn == <<[report_year |-> 2011, fraction_owned |-> [num |-> 45, den |-> 1],
                 owner_utility_id_eia |-> OkId, utility_id_eia |-> OkId,
                 plant_id_eia |-> OkId]>>

DefaultGen == <<[generator_id |-> [t |-> "str", v |-> "G1"], plant_id_eia |-> OkId,
                 utility_id_eia |-> [t |-> "float", v |-> "10"],
                 duct_burners |-> StrCell("Y"),
                 heat_bypass_recovery |-> StrCell("N"),
                 syncronized_transmission_grid |-> StrCell("Y")]>>

DefaultPlant == <<[plant_id_eia |-> OkId, utility_id_eia |-> OkId,
                   primary_purpose_naics_id |-> [t |-> "float", v |-> "10"],
                   zip_code |-> [t |-> "int", v |-> "1"],
                   ash_impoundment_lined |-> StrCell("X"),
                   energy_storage |-> StrCell("Y")]>>

DefaultBga == <<[report_year |-> [t |-> "int", v |-> "2011"],
                 utility_id_eia |-> [t |-> "int", v |-> "1"],
                 plant_id_eia |-> OkId, boiler_id |-> StrCell("B1"),
                 generator_id |-> StrCell("1"),
                 steam_plant_type |-> StrCell("x")]>>

DefaultUtil == <<[utility_id_eia |-> OkId, state |-> StrCell("qb"),
                  plants_reported_owner |-> StrCell("Y")]>>

\* the raw pages: the ownership page and the three generator pages
RawDfs(own, ge, gp, gr) ==
    [pg \in {"ownership", "generator_existing", "generator_proposed",
             "generator_retired"} |->
        CASE pg = "ownership" -> own
          [] pg = "generator_existing" -> ge
          [] pg = "generator_proposed" -> gp
          [] pg = "generator_retired" -> gr]

\* the seven raw pages the five transformers read
DefaultRaw ==
    [pg \in {"ownership", "generator_existing", "generator_proposed",
             "generator_retired", "plant", "boiler_generator_assn", "utility"} |->
        CASE pg = "ownership" -> DefaultOwn
          [] pg = "generator_existing" -> DefaultGen
          [] pg = "plant" -> DefaultPlant
          [] pg = "boiler_generator_assn" -> DefaultBga
          [] pg = "utility" -> DefaultUtil
          [] OTHER -> <<>>]

\* the rows a sequence of (page, row) pairs puts on one page
RowsOn(s, pg) ==
    LET on == SelectSeq(s, LAMBDA e : e[1] = pg)
    IN [i \in 1..Len(on) |-> on[i][2]]

OwnGenTables == {"ownership_eia860", "generators_eia860"}

KnownTables == Range(TransformOrder)

\* a name that is no key of eia860_transform_functions
UnknownTable == "plants_eia923"

\* the raw pages a transformer looks up, in the order of its lookups
PagesOf(table) ==
    CASE table = "ownership_eia860" -> <<"ownership">>
      [] table = "generators_eia860" ->
            <<"generator_proposed", "generator_existing", "generator_retired">>
      [] table = "plants_eia860" -> <<"plant">>
      [] table = "boiler_generator_assn_eia860" -> <<"boiler_generator_assn">>
      [] table = "utilities_eia860" -> <<"utility">>

\* the pages a run of the transformer looks up in dfs: each page in turn
\* until one is missing
Lookups(table, dfs) ==
    {PagesOf(table)[i] : i \in {k \in 1..Len(PagesOf(table)) :
                           \A j \in 1..(k - 1) : PagesOf(table)[j] \in DOMAIN dfs}}

\* a mapping with the pages of the given entities only
PagesFor(E) == UNION {Range(PagesOf(t)) : t \in E}

Restrict(d, pages) == [pg \in pages \cap DOMAIN d |-> d[pg]]

\* a variant of Requested that runs every transformer
RequestedAll(table, tbls) == TRUE

\* if table in eia860_tables
Requested(table, tbls) == table \in tbls

TransInit ==
    /\ \/ /\ \E own \in SeqsUpTo(OwnRows, MaxOwnRows) :
                raw = RawDfs(own, DefaultGen, <<>>, <<>>)
          /\ tables = OwnGenTables
       \/ /\ \E s \in SeqsUpTo(Range(GenPages) \X GenRows, MaxGenRows) :
                raw = RawDfs(DefaultOwn, RowsOn(s, "generator_existing"),
                             RowsOn(s, "generator_proposed"),
                             RowsOn(s, "generator_retired"))
          /\ tables = OwnGenTables
       \/ /\ \E E \in SUBSET KnownTables : raw = Restrict(DefaultRaw, PagesFor(E))
          /\ tables \in SUBSET (KnownTables \cup {UnknownTable})
       \/ /\ \E t \in SeqsUpTo(GenBoolRows, MaxBoolRows) :
                raw = DictSet(DefaultRaw, "generator_existing", t)
          /\ tables = {"generators_eia860"}
       \/ /\ \E t \in SeqsUpTo(PlantRows, MaxBoolRows) :
                raw = DictSet(DefaultRaw, "plant", t)
          /\ tables = {"plants_eia860"}
       \/ /\ \E t \in SeqsUpTo(UtilRows, MaxBoolRows) :
                raw = DictSet(DefaultRaw, "utility", t)
          /\ tables = {"utilities_eia860"}
       \/ /\ \E t \in SeqsUpTo(BgaRows, MaxBgaRows) :
                raw = DictSet(DefaultRaw, "boiler_generator_assn", t)
          /\ tables = {"boiler_generator_assn_eia860"}
    /\ acc = EmptyDict /\ tpos = 0 /\ tpc = "start"
    /\ terr = "none" /\ tret = <<>> /\ o_df = <<>> /\ reads = {}
    /\ ran = <<>>
    /\ PageIdle /\ MonthIdle /\ CleanIdle /\ InfoIdle

\* lines 354-359
TransformBegin ==
    /\ tpc = "start"
    /\ acc' = EmptyDict
    /\ IF raw = EmptyDict
       THEN tpc' = "done" /\ tret' = <<EmptyDict>> /\ tpos' = tpos
       ELSE tpc' = "loop" /\ tpos' = 1 /\ tret' = tret
    /\ UNCHANGED <<raw, tables, terr, o_df, reads, ran, pageVars, monthVars, cleanVars, infoVars>>

\* a table of the loop that is not in eia860_tables
TransformSkip ==
    /\ tpc = "loop" /\ tpos <= Len(TransformOrder)
    /\ ~Requested(TransformOrder[tpos], tables)
    /\ tpos' = tpos + 1
    /\ UNCHANGED <<raw, tables, acc, tpc, terr, tret, o_df, reads, ran, pageVars, monthVars, cleanVars, infoVars>>

\* ownership, lines 22-32: copy, fix_eia_na, convert_to_date, the assert
OwnershipBegin ==
    /\ tpc = "loop" /\ tpos <= Len(TransformOrder)
    /\ TransformOrder[tpos] = "ownership_eia860"
    /\ Requested("ownership_eia860", tables)
    /\ reads' = reads \cup Lookups("ownership_eia860", raw)
    /\ IF "ownership" \notin DOMAIN raw
       THEN tpc' = "failed" /\ terr' = "KeyError" /\ o_df' = o_df
       ELSE LET t == OwnFixNa(raw["ownership"])
            IN /\ o_df' = t
               /\ IF t = <<>>
                  THEN tpc' = "failed" /\ terr' = "ValueError"
                  ELSE IF OwnYearsOk(t)
                       THEN tpc' = "own_divide" /\ terr' = terr
                       ELSE tpc' = "failed" /\ terr' = "AssertionError"
    /\ UNCHANGED <<raw, tables, acc, tpos, tret, ran, pageVars, monthVars, cleanVars, infoVars>>

\* ownership, lines 36-37
OwnershipDivide ==
    /\ tpc = "own_divide"
    /\ o_df' = DivideFractions(o_df)
    /\ tpc' = "own_cast"
    /\ UNCHANGED <<raw, tables, acc, tpos, terr, tret, reads, ran, pageVars, monthVars, cleanVars, infoVars>>

\* ownership, lines 39-45, and back to the loop of transform
OwnershipStore ==
    /\ tpc = "own_cast"
    /\ IF OwnCastOk(o_df)
       THEN /\ o_df' = OwnCast(o_df)
            /\ acc' = DictSet(acc, "ownership_eia860", OwnCast(o_df))
            /\ tpc' = "loop" /\ tpos' = tpos + 1 /\ terr' = terr
       ELSE /\ tpc' = "failed" /\ terr' = "ValueError"
            /\ UNCHANGED <<o_df, acc, tpos>>
    /\ UNCHANGED <<raw, tables, tret, reads, ran, pageVars, monthVars, cleanVars, infoVars>>

\* lines 363-368 for a transformer taken as one step: its lookups, then
\* the entry it stores or the exception that ends transform
RunEntity(table, r) ==
    /\ tpc = "loop" /\ tpos <= Len(TransformOrder)
    /\ TransformOrder[tpos] = table
    /\ Requested(table, tables)
    /\ reads' = reads \cup Lookups(table, raw)
    /\ IF r.err = "none"
       THEN acc' = DictSet(acc, table, r.df) /\ tpos' = tpos + 1
            /\ UNCHANGED <<tpc, terr>>
       ELSE tpc' = "failed" /\ terr' = r.err /\ UNCHANGED <<acc, tpos>>
    /\ UNCHANGED <<raw, tables, tret, o_df, ran, pageVars, monthVars, cleanVars, infoVars>>

\* generators, lines 69-181
Generators == RunEntity("generators_eia860", GeneratorsResult(raw))

\* plants, lines 204-249
Plants == RunEntity("plants_eia860", PlantsResult(raw))

\* boiler_generator_assn, lines 266-296
BoilerGeneratorAssn == RunEntity("boiler_generator_assn_eia860", BgaResult(raw))

\* utilities, lines 313-341
Utilities == RunEntity("utilities_eia860", UtilitiesResult(raw))

\* return eia860_transformed_dfs
TransformReturn ==
    /\ tpc = "loop" /\ tpos > Len(TransformOrder)
    /\ tpc' = "done" /\ tret' = <<acc>>
    /\ UNCHANGED <<raw, tables, acc, tpos, terr, o_df, reads, ran, pageVars, monthVars, cleanVars, infoVars>>

TransNext ==
    \/ TransformBegin \/ TransformSkip \/ OwnershipBegin \/ OwnershipDivide
    \/ OwnershipStore \/ Generators \/ Plants \/ BoilerGeneratorAssn
    \/ Utilities \/ TransformReturn

SpecTransform == TransInit /\ [][TransNext]_vars

(***************************************************************************)
(* The five transformers called directly, each at most once, in any        *)
(* order, on one mapping of raw pages and one accumulator.                 *)
(***************************************************************************)
\* the function stored under a key of eia860_transform_functions
EntityResult(table, dfs) ==
    CASE table = "ownership_eia860" -> OwnershipResult(dfs)
      [] table = "generators_eia860" -> GeneratorsResult(dfs)
      [] table = "plants_eia860" -> PlantsResult(dfs)
      [] table = "boiler_generator_assn_eia860" -> BgaResult(dfs)
      [] table = "utilities_eia860" -> UtilitiesResult(dfs)

OldOwn == <<[report_year |-> 2010, fraction_owned |-> [num |-> 45, den |-> 1],
             owner_utility_id_eia |-> OkId, utility_id_eia |-> OkId,
             plant_id_eia |-> OkId]>>

\* raw mappings: the seven pages, some pages only, a page that makes its
\* transformer raise, a page with a repeated row
EntityInputs ==
    {Restrict(DefaultRaw, PagesFor(E)) : E \in SUBSET KnownTables}
    \cup {DictSet(DefaultRaw, "ownership", OldOwn),
          DictSet(DefaultRaw, "boiler_generator_assn", DefaultBga \o DefaultBga)}

EntitiesInit ==
    /\ raw \in EntityInputs
    /\ tables = {} /\ acc = EmptyDict /\ tpos = 0 /\ tpc = "free"
    /\ terr = "none" /\ tret = <<>> /\ o_df = <<>> /\ reads = {}
    /\ ran = <<>>
    /\ PageIdle /\ MonthIdle /\ CleanIdle /\ InfoIdle

\* one call transformer(eia860_dfs, eia860_transformed_dfs): the pages are
\* copied, the result goes under the transformer's own key
CallEntity(table) ==
    /\ tpc = "free" /\ table \notin Range(ran)
    /\ ran' = Append(ran, table)
    /\ reads' = reads \cup Lookups(table, raw)
    /\ LET r == EntityResult(table, raw)
       IN IF r.err = "none"
          THEN acc' = DictSet(acc, table, r.df) /\ UNCHANGED <<tpc, terr>>
          ELSE tpc' = "failed" /\ terr' = r.err /\ acc' = acc
    /\ UNCHANGED <<raw, tables, tpos, tret, o_df, pageVars, monthVars, cleanVars, infoVars>>

CallOwnership == CallEntity("ownership_eia860")

CallGenerators == CallEntity("generators_eia860")

CallPlants == CallEntity("plants_eia860")

CallBoilerGeneratorAssn == CallEntity("boiler_generator_assn_eia860")

CallUtilities == CallEntity("utilities_eia860")

EntitiesNext ==
    \/ CallOwnership \/ CallGenerators \/ CallPlants
    \/ CallBoilerGeneratorAssn \/ CallUtilities

SpecEntities == EntitiesInit /\ [][EntitiesNext]_vars


(***************************************************************************)
(* Properties of the ownership and generators transformers.                *)
(***************************************************************************)
OwnInput == IF "ownership" \in DOMAIN raw THEN raw["ownership"] ELSE <<>>

OwnRequested == raw # EmptyDict /\ "ownership_eia860" \in tables

\* an ownership record of the input predates 2011
HasOldYear == \E i \in 1..Len(OwnInput) : OwnInput[i].report_year < PercentYear

\* C6: with an ownership record older than 2011 the transformer raises
\* before it changes any fraction_owned, the accumulator gains no
\* ownership_eia860 entry and stays as it was, and transform returns nothing
C6_OldYearsFatal ==
    (OwnRequested /\ HasOldYear) =>
        /\ "ownership_eia860" \notin DOMAIN acc /\ acc = EmptyDict
        /\ tpc \in {"start", "loop", "failed"} /\ tret = <<>>
        /\ tpos <= 1
        /\ \A i \in 1..Len(o_df) : o_df[i].fraction_owned = OwnInput[i].fraction_owned
        /\ tpc = "failed" => terr = "AssertionError"

C6_Witness ==
    /\ OwnRequested /\ HasOldYear
    /\ tpc = "failed" /\ terr = "AssertionError"
    /\ \E i \in 1..Len(o_df) :
          o_df[i].report_year = PercentYear /\ o_df[i].fraction_owned.num = 45

OwnOutput == acc["ownership_eia860"]

\* C7: in the stored ownership table every 2011 record holds its input
\* fraction divided by 100, once, every later record its input fraction,
\* and the rows are those of the input
C7_PercentToProportion ==
    "ownership_eia860" \in DOMAIN acc =>
        /\ Len(OwnOutput) = Len(OwnInput)
        /\ \A i \in 1..Len(OwnOutput) :
              /\ OwnOutput[i].report_year = OwnInput[i].report_year
              /\ OwnInput[i].report_year = 2011 =>
                    OwnOutput[i].fraction_owned =
                       [num |-> OwnInput[i].fraction_owned.num,
                        den |-> OwnInput[i].fraction_owned.den * 100]
              /\ OwnInput[i].report_year >= 2012 =>
                    OwnOutput[i].fraction_owned = OwnInput[i].fraction_owned

C7_Witness ==
    /\ "ownership_eia860" \in DOMAIN acc
    /\ \E i, j \in 1..Len(OwnOutput) :
          /\ OwnInput[i].report_year = 2011
          /\ OwnInput[i].fraction_owned = [num |-> 45, den |-> 1]
          /\ OwnOutput[i].fraction_owned = [num |-> 45, den |-> 100]
          /\ OwnInput[j].report_year = 2012
          /\ OwnOutput[j].fraction_owned = [num |-> 3, den |-> 10]

GenOutput == acc["generators_eia860"]

\* the rows of an input page whose two identifiers are both present
Identified(pg) ==
    SelectSeq(raw[pg], LAMBDA r : ~(r.generator_id = NaNCell \/ r.plant_id_eia = NaNCell))

GenInputCount == Len(raw["generator_existing"]) + Len(raw["generator_proposed"])
                 + Len(raw["generator_retired"])

GenMissingCount ==
    GenInputCount - (Len(Identified("generator_existing"))
                     + Len(Identified("generator_proposed"))
                     + Len(Identified("generator_retired")))

WithStatus(code) == SelectSeq(GenOutput, LAMBDA r : r.operational_status_code = code)

GenKeptInput ==
    Identified("generator_existing") \o Identified("generator_proposed")
    \o Identified("generator_retired")

\* no value present: an empty cell, or one of the fillers fix_eia_na clears
Absent(c) == IsNa(FixNa(c))

\* what the claims ask of a fixed boolean cell: true or false and nothing
\* else for 'Y', 'N' or no value, and for no value the value 'N' maps to
BoolAsStated(in, out) ==
    /\ (Absent(in) \/ in \in {StrCell("Y"), StrCell("N")}) =>
          out \in {BoolCell("True"), BoolCell("False")}
    /\ Absent(in) => out = ReplaceYN(StrCell("N"))

\* what the loops of lines 154-157, 234-237 and 330-333 produce
BoolAsCoded(in, out) ==
    /\ in = StrCell("Y") => out = BoolCell("True")
    /\ in = StrCell("N") => out = BoolCell("False")
    /\ Absent(in) => out = StrCell("False")

\* the boolean columns whose cells depend on their own input cell only
GenBoolCols == {"duct_burners", "heat_bypass_recovery"}

PlantBoolCols == {"ash_impoundment_lined", "energy_storage"}

UtilBoolCols == {"plants_reported_owner"}

\* the cells of the boolean columns of the three stored tables, each with
\* the input cell it was computed from
BoolCellPairs ==
    (IF "generators_eia860" \in DOMAIN acc
     THEN {<<GenKeptInput[i][c], acc["generators_eia860"][i][c]>> :
              i \in 1..Len(GenKeptInput), c \in GenBoolCols}
     ELSE {})
    \cup
    (IF "plants_eia860" \in DOMAIN acc
     THEN {<<raw["plant"][i][c], acc["plants_eia860"][i][c]>> :
              i \in 1..Len(raw["plant"]), c \in PlantBoolCols}
     ELSE {})
    \cup
    (IF "utilities_eia860" \in DOMAIN acc
     THEN {<<raw["utility"][i][c], acc["utilities_eia860"][i][c]>> :
              i \in 1..Len(raw["utility"]), c \in UtilBoolCols}
     ELSE {})

\* C12: in the boolean columns of the stored plants, generators and
\* utilities tables a cell with no value has become boolean false, and a
\* cell that held 'Y', 'N' or nothing holds boolean true or boolean false
C12_AbsentIsFalse == \A p \in BoolCellPairs : BoolAsStated(p[1], p[2])

\* what holds instead: 'Y' and 'N' become the booleans, a cell with no
\* value becomes the five-letter string 'False'
C12_AbsentIsText == \A p \in BoolCellPairs : BoolAsCoded(p[1], p[2])

\* the boolean the tokens of a column with the 'X' rewrite stand for
TokenValue(c) ==
    CASE c = StrCell("Y") -> BoolCell("True")
      [] c \in {StrCell("N"), StrCell("X")} -> BoolCell("False")

XCols == {"duct_burners", "heat_bypass_recovery", "syncronized_transmission_grid"}

\* C18: in the stored generators table the value of each column with the
\* 'X' rewrite is the one its own input token stands for: false for 'X' or
\* 'N', true for 'Y'
C18_OwnColumnOnly ==
    "generators_eia860" \in DOMAIN acc =>
        \A i \in 1..Len(GenOutput) : \A c \in XCols :
            GenKeptInput[i][c] \in {StrCell("Y"), StrCell("N"), StrCell("X")} =>
                GenOutput[i][c] = TokenValue(GenKeptInput[i][c])

\* what holds instead: syncronized_transmission_grid carries the value of
\* heat_bypass_recovery, whatever its own input was
C18_CopiesHeatBypass ==
    "generators_eia860" \in DOMAIN acc =>
        \A i \in 1..Len(GenOutput) :
            /\ GenOutput[i].syncronized_transmission_grid =
                   GenOutput[i].heat_bypass_recovery
            /\ \A c \in GenBoolCols :
                  GenKeptInput[i][c] \in {StrCell("Y"), StrCell("N"), StrCell("X")} =>
                      GenOutput[i][c] = TokenValue(GenKeptInput[i][c])

(***************************************************************************)
(* Properties of the boiler-generator association and of the id types.     *)
(***************************************************************************)
BgaInput == raw["boiler_generator_assn"]

BgaOutput == acc["boiler_generator_assn_eia860"]

\* the five key values of a row, as text, whatever type holds them
BgaKey(r) == [c \in b_g_cols |-> r[c].v]

\* a utility id that is a number, or a string of digits
NumericId(c) == c.t = "int" \/ (c.t = "float" /\ ~IsNa(c)) \/ IsNumeric(c)

YearsPresent == \A i \in 1..Len(BgaInput) : ~IsNa(BgaInput[i].report_year)

\* C13: the stored association table has the five key columns only, holds
\* one row for each distinct five-column combination among the input rows
\* whose utility id is numeric, and no two of its rows agree on all five
\* columns (on the inputs in which every row has its report year)
C13_KeepsNumeric ==
    ("boiler_generator_assn_eia860" \in DOMAIN acc /\ YearsPresent) =>
        LET keys == {BgaKey(BgaInput[i]) :
                        i \in {j \in 1..Len(BgaInput) :
                                  NumericId(BgaInput[j].utility_id_eia)}}
        IN /\ \A i \in 1..Len(BgaOutput) : DOMAIN BgaOutput[i] = b_g_cols
           /\ {BgaKey(BgaOutput[i]) : i \in 1..Len(BgaOutput)} = keys
           /\ Len(BgaOutput) = Cardinality(keys)

\* what holds instead: the rows kept are those whose utility id, written
\* out as a string, is made of digits (an id held as a float is written
\* '1.0' and goes) and whose report year is present
C13_KeepsDigitStrings ==
    "boiler_generator_assn_eia860" \in DOMAIN acc =>
        LET keys == {BgaKey(BgaInput[i]) :
                        i \in {j \in 1..Len(BgaInput) :
                                  /\ IsNumeric(AsStr(BgaInput[j].utility_id_eia))
                                  /\ ~IsNa(BgaInput[j].report_year)}}
        IN /\ \A i \in 1..Len(BgaOutput) : DOMAIN BgaOutput[i] = b_g_cols
           /\ {BgaKey(BgaOutput[i]) : i \in 1..Len(BgaOutput)} = keys
           /\ Len(BgaOutput) = Cardinality(keys)

IntIdCols == {"plant_id_eia", "utility_id_eia"}

StrIdCols == {"generator_id", "boiler_id"}

\* the id cells of the row hold the types of the identity invariant
IdTypesOk(r) ==
    /\ \A c \in DOMAIN r \cap IntIdCols : r[c].t = "int"
    /\ \A c \in DOMAIN r \cap StrIdCols : r[c].t = "str"

\* C15: in every table stored in the accumulator plant_id_eia and
\* utility_id_eia hold integers and generator_id and boiler_id hold strings
C15_IdTypes ==
    \A k \in DOMAIN acc : \A i \in 1..Len(acc[k]) : IdTypesOk(acc[k][i])

\* what holds instead: the invariant holds of every stored table but the
\* association table, whose utility_id_eia holds strings
C15_IdTypesButBga ==
    \A k \in DOMAIN acc : \A i \in 1..Len(acc[k]) :
        IF k = "boiler_generator_assn_eia860"
        THEN /\ acc[k][i].utility_id_eia.t = "str"
             /\ acc[k][i].plant_id_eia.t = "int"
             /\ acc[k][i].generator_id.t = "str" /\ acc[k][i].boiler_id.t = "str"
        ELSE IdTypesOk(acc[k][i])

(***************************************************************************)
(* Properties of transform.                                                *)
(***************************************************************************)
RequestedKnown == tables \cap KnownTables

\* C14: transform looks up no page but those of the requested entities and
\* never fails for a page of another entity; what it returns is the empty
\* mapping when the raw mapping is empty, and otherwise a mapping whose keys
\* are the requested tables among the five known ones
C14_PartialRuns ==
    /\ reads \subseteq PagesFor(RequestedKnown)
    /\ (tpc = "failed" /\ terr = "KeyError") =>
          ~(PagesFor(RequestedKnown) \subseteq DOMAIN raw)
    /\ tpc = "done" =>
          IF raw = EmptyDict THEN tret = <<EmptyDict>>
          ELSE tret = <<acc>> /\ DOMAIN acc = RequestedKnown

C14_Witness ==
    /\ tpc = "done" /\ raw # EmptyDict
    /\ UnknownTable \in tables
    /\ DOMAIN tret[1] = {"plants_eia860", "utilities_eia860"}
    /\ DOMAIN raw = {"plant", "utility"}
    /\ reads = {"plant", "utility"}

\* the empty raw mapping: nothing is looked up whatever is requested
C14_WitnessEmpty ==
    /\ tpc = "done" /\ raw = EmptyDict /\ tables = KnownTables
    /\ tret = <<EmptyDict>> /\ reads = {}

(***************************************************************************)
(* Properties of the transformers called in any order.                     *)
(***************************************************************************)
\* the transformers that ran and stored their table
Succeeded == {ran[i] : i \in {j \in 1..Len(ran) : EntityResult(ran[j], raw).err = "none"}}

\* the accumulator holds, for the transformers that ran and did not raise,
\* the table each computes from the raw pages alone
AccOfRawOnly ==
    /\ DOMAIN acc = Succeeded
    /\ \A k \in DOMAIN acc : acc[k] = EntityResult(k, raw).df

\* a call leaves the raw pages and the entries already stored as they are
\* and adds at most the entry of the transformer called
FrameStep ==
    /\ raw' = raw
    /\ \A k \in DOMAIN acc : k \in DOMAIN acc' /\ acc'[k] = acc[k]
    /\ DOMAIN acc' \subseteq DOMAIN acc \cup {ran'[Len(ran')]}

\* C16: every call writes only the entry of its own table and leaves the
\* raw pages and the other entries unchanged, so that the accumulator after
\* any sequence of calls depends on which transformers were called and not
\* on their order
C16_Independent == [][FrameStep]_vars /\ [](tpc = "free" => AccOfRawOnly)

\* the five transformers called in the reverse of transform's order
C16_Witness ==
    /\ tpc = "free" /\ raw = DefaultRaw
    /\ ran = <<"utilities_eia860", "boiler_generator_assn_eia860",
               "plants_eia860", "generators_eia860", "ownership_eia860">>
    /\ DOMAIN acc = KnownTables
    /\ acc["ownership_eia860"][1].fraction_owned = [num |-> 45, den |-> 100]

====
